---- MODULE Spec2Model ----
(***************************************************************************)
(* ConcurrentHashMap<std::string, int> of Source.cpp: a symbol -> vector   *)
(* of Order map guarded by one std::mutex, with the four public operations *)
(* insert, remove, display and getPriceRange called by concurrent threads. *)
(* Every operation is modelled statement by statement: the lock_guard      *)
(* constructor, each statement of the body, and the return that releases   *)
(* the mutex are separate steps of the calling thread.                     *)
(***************************************************************************)
EXTENDS Integers, Sequences, FiniteSets, TLC

\* ------------------------------------------------------------------ bounds
NumThreads == 2
MaxOps == 3
MaxLiveInserts == 1

Threads == 1..NumThreads
NoThread == 0
Symbols == {"NESTLEIND", "HDFCBANK"}
\* int price: a negative, the zero and a positive price
Prices == {-1, 0, 1}
\* the prices the callers insert at each symbol
PricesOf(symbol) == IF symbol = "NESTLEIND" THEN {-1, 0} ELSE {0, 1}
\* V lotSize of the inserted Order
Quantities == {1, 2}

\* ---------------------------------------------------------- int arithmetic
IntMax == 2147483647
\* quantities that take an int to its largest value
WideQuantities == {1, IntMax}
IntMin == (0 - IntMax) - 1

\* the sum the history variables keep of the quantities inserted, held at
\* IntMax once it is that large
Tally(a, b) == IF a > IntMax - b THEN IntMax ELSE a + b

\* std::atomic<int>::fetch_add: two's complement addition, wrapping at 32 bits
\* (FetchAddStore: a plain store in place of the addition)
FetchAddStore(a, b) == b
FetchAdd(a, b) ==
    IF b > 0 /\ a > IntMax - b THEN (a - IntMax - 1) + (b - IntMax - 1)
    ELSE IF b < 0 /\ a < IntMin - b THEN (a + IntMax + 1) + (b + IntMax + 1)
    ELSE a + b

VARIABLES
    map_,       \* std::unordered_map<K, std::vector<Order>>: symbol -> orders
    mutex_,     \* owner of the std::mutex, NoThread when unlocked
    pc,         \* statement each thread is at
    call,       \* arguments of the call each thread is in (or made last)
    idx,        \* position of the range-for of insert in the vector
    found,      \* local `found` of insert
    ret,        \* value the call is about to return to its caller
    cerr,       \* whether the thread's call wrote an error line to std::cerr
    shown,      \* what display has written to std::cout: symbol -> orders
    ncalls,     \* number of calls made so far
    snap,       \* history: map_ as it was when the thread acquired mutex_
    since,      \* history: per (symbol, price), quantities inserted since
                \* the symbol's vector was created
    invoked,    \* history: per symbol, "removed" once remove was called on
                \* it, else per price the number and sum of insert calls
    seqMap,     \* history: a sequential store running each call in one
                \* step, in the order the threads acquire mutex_
    expect,     \* history: what the sequential store returned for the call
    removed,    \* history: symbols inserted, then removed, and not the
                \* argument of any insert called since
    ever,       \* history: per (symbol, price), quantities of all completed
                \* inserts, removals notwithstanding
    lastRange   \* history: per symbol, what the last getPriceRange of it
                \* returned, forgotten when an insert or remove of the
                \* symbol acquires mutex_

hist == <<snap, since, invoked, seqMap, expect, removed, ever, lastRange>>
vars == <<map_, mutex_, pc, call, idx, found, ret, cerr, shown, ncalls,
          hist>>

\* ------------------------------------------------------------------ Order
\* Order(V lotSize, int price): the atomic counter and the price
Order(lotSize, price) == [lotSize |-> lotSize, price |-> price]

EmptyMap == [s \in {} |-> <<>>]
NoCall == [op |-> "none", symbol |-> "", price |-> 0, lotSize |-> 0]
NoRet == [kind |-> "none", first |-> 0, second |-> 0]
VoidRet == [kind |-> "void", first |-> 0, second |-> 0]
PairRet(lo, hi) == [kind |-> "pair", first |-> lo, second |-> hi]
ZeroSince == [s \in Symbols |-> [p \in Prices |-> 0]]
NoInvoked == [removeCalled |-> FALSE, n |-> [p \in Prices |-> 0],
              sum |-> [p \in Prices |-> 0]]

\* map_.find(symbol) != map_.end()
Contains(m, symbol) == symbol \in DOMAIN m

\* the vector a reference or iterator obtained under the mutex designates
OrdersOf(m, symbol) == IF Contains(m, symbol) THEN m[symbol] ELSE <<>>

\* existingOrder.price == order.price
\* (PriceMatchesNever: a comparison that never matches)
PriceMatchesNever(existingOrder, price) == FALSE
PriceMatches(existingOrder, price) == existingOrder.price = price

\* map_.find(symbol) on the const map: the map after the lookup
\* (FindCreating: a lookup by map_[symbol], which adds a missing key)
FindCreating(m, symbol) ==
    IF Contains(m, symbol) THEN m ELSE m @@ (symbol :> <<>>)
Find(m, symbol) == m

\* map_[symbol]: default-constructs an empty vector for a new key
\* (SubscriptNoCreate: a lookup that creates nothing)
SubscriptNoCreate(m, symbol) == m
Subscript(m, symbol) ==
    IF Contains(m, symbol) THEN m ELSE m @@ (symbol :> <<>>)

\* (EraseClear: the vector emptied, its key kept; EraseAll: map_.clear())
EraseClear(m, symbol) == [m EXCEPT ![symbol] = <<>>]
EraseAll(m, symbol) == EmptyMap

\* map_.erase(it): the key and its whole vector go
\* (EraseFirstOnly: an erase that drops one order of a longer vector)
EraseFirstOnly(m, symbol) ==
    IF Contains(m, symbol) /\ Len(m[symbol]) > 1
    THEN [m EXCEPT ![symbol] = Tail(@)]
    ELSE [s \in DOMAIN m \ {symbol} |-> m[s]]
Erase(m, symbol) == [s \in DOMAIN m \ {symbol} |-> m[s]]

\* std::lock_guard<std::mutex> lock(mutex_) can return: the mutex is free
\* (CanLockAlways: a lock that excludes nobody)
CanLockAlways == TRUE
CanLock == mutex_ = NoThread

\* std::minmax_element with the comparator a.price < b.price: index of the
\* first smallest and of the last largest element
RECURSIVE MinIdx(_, _, _)
MinIdx(orders, i, best) ==
    IF i > Len(orders) THEN best
    ELSE MinIdx(orders, i + 1,
                IF orders[i].price < orders[best].price THEN i ELSE best)

RECURSIVE MaxIdx(_, _, _)
MaxIdx(orders, i, best) ==
    IF i > Len(orders) THEN best
    ELSE MaxIdx(orders, i + 1,
                IF orders[i].price < orders[best].price THEN best ELSE i)

\* (MinMaxFrontBack: the first and the last element, unsorted)
MinMaxFrontBack(orders) == <<1, Len(orders)>>
MinMaxElement(orders) == <<MinIdx(orders, 2, 1), MaxIdx(orders, 2, 1)>>

\* ------------------------------------------------------------------- Init
\* ConcurrentHashMap<std::string, int> concurrentMap;
Init ==
    /\ map_ = EmptyMap
    /\ mutex_ = NoThread
    /\ pc = [t \in Threads |-> "idle"]
    /\ call = [t \in Threads |-> NoCall]
    /\ idx = [t \in Threads |-> 0]
    /\ found = [t \in Threads |-> FALSE]
    /\ ret = [t \in Threads |-> NoRet]
    /\ cerr = [t \in Threads |-> FALSE]
    /\ shown = [t \in Threads |-> EmptyMap]
    /\ ncalls = 0
    /\ snap = [t \in Threads |-> EmptyMap]
    /\ since = ZeroSince
    /\ invoked = [s \in Symbols |-> NoInvoked]
    /\ seqMap = EmptyMap
    /\ expect = [t \in Threads |-> NoRet]
    /\ removed = {}
    /\ ever = ZeroSince
    /\ lastRange = [s \in Symbols |-> NoRet]

\* ------------------------------------------------- the sequential store
\* insert as one step: add to the first order of that price, else append
SeqInsert(m, symbol, price, lotSize) ==
    LET orders == OrdersOf(m, symbol)
        hits == {i \in 1..Len(orders) : orders[i].price = price}
    IN  IF hits = {}
        THEN (symbol :> Append(orders, Order(lotSize, price))) @@ m
        ELSE LET i == CHOOSE h \in hits : \A k \in hits : h <= k
             IN  [m EXCEPT ![symbol][i].lotSize = FetchAdd(@, lotSize)]

\* the value getPriceRange computes from the map it sees
PriceRangeOf(m, symbol) ==
    IF ~Contains(m, symbol) THEN PairRet(0, 0)
    ELSE LET orders == m[symbol]
         IN  IF orders = <<>> THEN PairRet(0, 0)
             ELSE LET minMax == MinMaxElement(orders)
                  IN  PairRet(orders[minMax[1]].price,
                              orders[minMax[2]].price)

\* one call run to completion on m: the map after it and the value returned
SeqApply(m, c) ==
    IF c.op = "insert"
    THEN [map |-> SeqInsert(m, c.symbol, c.price, c.lotSize), ret |-> VoidRet]
    ELSE IF c.op = "remove"
    THEN [map |-> Erase(m, c.symbol), ret |-> VoidRet]
    ELSE IF c.op = "getPriceRange"
    THEN [map |-> m, ret |-> PriceRangeOf(m, c.symbol)]
    ELSE [map |-> m, ret |-> VoidRet]

\* --------------------------------------------------- call, lock and return
InsertInFlight(symbol) ==
    \E u \in Threads : call[u].op = "insert" /\ call[u].symbol = symbol

\* a thread calls one of the four operations
Called(t, op, symbol, price, lotSize) ==
    /\ pc[t] = "idle"
    /\ call' = [call EXCEPT ![t] = [op |-> op, symbol |-> symbol,
                                    price |-> price, lotSize |-> lotSize]]
    /\ pc' = [pc EXCEPT ![t] = op \o "_lock"]
    /\ invoked' =
         IF op = "remove"
         THEN [invoked EXCEPT ![symbol] =
                  [NoInvoked EXCEPT !.removeCalled = TRUE]]
         ELSE IF op = "insert" /\ ~invoked[symbol].removeCalled
         THEN [invoked EXCEPT ![symbol].n[price] = @ + 1,
                              ![symbol].sum[price] = Tally(@, lotSize)]
         ELSE invoked
    /\ removed' = IF op = "insert" THEN removed \ {symbol} ELSE removed
    /\ UNCHANGED <<map_, mutex_, idx, found, ret, cerr, shown, snap, since,
                   seqMap, expect, ever, lastRange>>

\* a call that counts against the bound on the number of calls
Invoke(t, op, symbol, price, lotSize) ==
    /\ ncalls < MaxOps
    /\ ncalls' = ncalls + 1
    /\ Called(t, op, symbol, price, lotSize)

\* std::lock_guard<std::mutex> lock(mutex_);
Lock(t, op, next) ==
    /\ pc[t] = op \o "_lock"
    /\ CanLock
    /\ mutex_' = t
    /\ snap' = [snap EXCEPT ![t] = map_]
    /\ seqMap' = SeqApply(seqMap, call[t]).map
    /\ expect' = [expect EXCEPT ![t] = SeqApply(seqMap, call[t]).ret]
    /\ pc' = [pc EXCEPT ![t] = next]
    /\ lastRange' =
         IF call[t].op \in {"insert", "remove"}
         THEN [lastRange EXCEPT ![call[t].symbol] = NoRet]
         ELSE lastRange
    /\ UNCHANGED <<map_, call, idx, found, ret, cerr, shown, ncalls, since,
                   invoked, removed, ever>>

\* ~lock_guard: mutex_.unlock()
\* (ReleasedNever: a return that leaves the mutex locked)
ReleasedNever(t) == t
Released(t) == NoThread

\* the closing brace: the value goes to the caller, the locals go and
\* ~lock_guard releases the mutex
Return(t, at) ==
    /\ pc[t] = at
    /\ mutex_' = Released(t)
    /\ pc' = [pc EXCEPT ![t] = "idle"]
    /\ call' = [call EXCEPT ![t] = NoCall]
    /\ ret' = [ret EXCEPT ![t] = NoRet]
    /\ cerr' = [cerr EXCEPT ![t] = FALSE]
    /\ idx' = [idx EXCEPT ![t] = 0]
    /\ found' = [found EXCEPT ![t] = FALSE]
    /\ shown' = [shown EXCEPT ![t] = EmptyMap]
    /\ snap' = [snap EXCEPT ![t] = EmptyMap]
    /\ expect' = [expect EXCEPT ![t] = NoRet]
    /\ since' =
         IF call[t].op = "insert"
         THEN [since EXCEPT ![call[t].symbol][call[t].price] =
                  Tally(@, call[t].lotSize)]
         ELSE IF call[t].op = "remove"
         THEN [since EXCEPT ![call[t].symbol] = [p \in Prices |-> 0]]
         ELSE since
    /\ ever' =
         IF call[t].op = "insert"
         THEN [ever EXCEPT ![call[t].symbol][call[t].price] =
                  Tally(@, call[t].lotSize)]
         ELSE ever
    /\ removed' =
         IF /\ call[t].op = "remove"
            /\ ~cerr[t]
            /\ ~InsertInFlight(call[t].symbol)
         THEN removed \cup {call[t].symbol}
         ELSE removed
    /\ lastRange' =
         IF call[t].op = "getPriceRange"
         THEN [lastRange EXCEPT ![call[t].symbol] = ret[t]]
         ELSE lastRange
    /\ UNCHANGED <<map_, ncalls, invoked, seqMap>>

\* ----------------------------------------------------------------- insert
InsertCall(t) ==
    \E symbol \in Symbols, lotSize \in Quantities :
        \E price \in PricesOf(symbol) :
            Invoke(t, "insert", symbol, price, lotSize)

InsertLock(t) == Lock(t, "insert", "insert_ref")

\* auto& orders = map_[symbol]; bool found = false;
InsertRef(t) ==
    /\ pc[t] = "insert_ref"
    /\ map_' = Subscript(map_, call[t].symbol)
    /\ found' = [found EXCEPT ![t] = FALSE]
    /\ idx' = [idx EXCEPT ![t] = 1]
    /\ pc' = [pc EXCEPT ![t] = "insert_scan"]
    /\ UNCHANGED <<mutex_, call, ret, cerr, shown, ncalls, hist>>

\* one iteration of for (auto& existingOrder : orders): on a match,
\* fetch_add, found = true, break
InsertScan(t) ==
    /\ pc[t] = "insert_scan"
    /\ LET symbol == call[t].symbol
           orders == OrdersOf(map_, symbol)
       IN  IF idx[t] > Len(orders)
           THEN /\ pc' = [pc EXCEPT ![t] = "insert_push"]
                /\ UNCHANGED <<map_, found, idx>>
           ELSE IF PriceMatches(orders[idx[t]], call[t].price)
           THEN /\ map_' = [map_ EXCEPT ![symbol][idx[t]].lotSize =
                                FetchAdd(@, call[t].lotSize)]
                /\ found' = [found EXCEPT ![t] = TRUE]
                /\ pc' = [pc EXCEPT ![t] = "insert_push"]
                /\ UNCHANGED idx
           ELSE /\ idx' = [idx EXCEPT ![t] = @ + 1]
                /\ UNCHANGED <<map_, found, pc>>
    /\ UNCHANGED <<mutex_, call, ret, cerr, shown, ncalls, hist>>

\* if (!found) orders.push_back(std::move(order));
InsertPush(t) ==
    /\ pc[t] = "insert_push"
    /\ LET symbol == call[t].symbol
       IN  IF ~found[t] /\ Contains(map_, symbol)
           THEN map_' = [map_ EXCEPT ![symbol] =
                            Append(@, Order(call[t].lotSize, call[t].price))]
           ELSE UNCHANGED map_
    /\ ret' = [ret EXCEPT ![t] = VoidRet]
    /\ pc' = [pc EXCEPT ![t] = "insert_ret"]
    /\ UNCHANGED <<mutex_, call, idx, found, cerr, shown, ncalls, hist>>

InsertReturn(t) == Return(t, "insert_ret")

\* ----------------------------------------------------------------- remove
RemoveCall(t) == \E symbol \in Symbols : Invoke(t, "remove", symbol, 0, 0)

RemoveLock(t) == Lock(t, "remove", "remove_find")

\* auto it = map_.find(symbol); if (it == map_.end()) { std::cerr << ...;
\* return; }
RemoveFind(t) ==
    /\ pc[t] = "remove_find"
    /\ IF Contains(map_, call[t].symbol)
       THEN /\ pc' = [pc EXCEPT ![t] = "remove_erase"]
            /\ UNCHANGED <<cerr, ret>>
       ELSE /\ cerr' = [cerr EXCEPT ![t] = TRUE]
            /\ ret' = [ret EXCEPT ![t] = VoidRet]
            /\ pc' = [pc EXCEPT ![t] = "remove_ret"]
    /\ UNCHANGED <<map_, mutex_, call, idx, found, shown, ncalls, hist>>

\* map_.erase(it);
RemoveErase(t) ==
    /\ pc[t] = "remove_erase"
    /\ map_' = Erase(map_, call[t].symbol)
    /\ ret' = [ret EXCEPT ![t] = VoidRet]
    /\ pc' = [pc EXCEPT ![t] = "remove_ret"]
    /\ UNCHANGED <<mutex_, call, idx, found, cerr, shown, ncalls, hist>>

RemoveReturn(t) == Return(t, "remove_ret")

\* ---------------------------------------------------------- getPriceRange
GetPriceRangeCall(t) ==
    \E symbol \in Symbols : Invoke(t, "getPriceRange", symbol, 0, 0)

GetPriceRangeLock(t) == Lock(t, "getPriceRange", "range_find")

\* auto it = map_.find(symbol); if (it == map_.end()) { std::cerr << ...;
\* return {0, 0}; } ... return {minMax.first->price, minMax.second->price};
GetPriceRangeFind(t) ==
    /\ pc[t] = "range_find"
    /\ cerr' = [cerr EXCEPT ![t] = ~Contains(map_, call[t].symbol)]
    /\ ret' = [ret EXCEPT ![t] = PriceRangeOf(map_, call[t].symbol)]
    /\ map_' = Find(map_, call[t].symbol)
    /\ pc' = [pc EXCEPT ![t] = "range_ret"]
    /\ UNCHANGED <<mutex_, call, idx, found, shown, ncalls, hist>>

GetPriceRangeReturn(t) == Return(t, "range_ret")

\* ---------------------------------------------------------------- display
DisplayCall(t) == Invoke(t, "display", "", 0, 0)

DisplayLock(t) == Lock(t, "display", "display_loop")

\* one iteration of for (const auto& pair : map_): the symbol, then every
\* order of its vector; the unordered_map fixes no order of the symbols
DisplayLoop(t) ==
    /\ pc[t] = "display_loop"
    /\ LET left == DOMAIN map_ \ DOMAIN shown[t]
       IN  IF left = {}
           THEN /\ pc' = [pc EXCEPT ![t] = "display_ret"]
                /\ ret' = [ret EXCEPT ![t] = VoidRet]
                /\ UNCHANGED shown
           ELSE /\ \E symbol \in left :
                       shown' = [shown EXCEPT ![t] =
                                    @ @@ (symbol :> map_[symbol])]
                /\ UNCHANGED <<pc, ret>>
    /\ UNCHANGED <<map_, mutex_, call, idx, found, cerr, ncalls, hist>>

DisplayReturn(t) == Return(t, "display_ret")

\* ------------------------------------------------------------------- Next
Next ==
    \E t \in Threads :
        \/ InsertCall(t)
        \/ InsertLock(t)
        \/ InsertRef(t)
        \/ InsertScan(t)
        \/ InsertPush(t)
        \/ InsertReturn(t)
        \/ RemoveCall(t)
        \/ RemoveLock(t)
        \/ RemoveFind(t)
        \/ RemoveErase(t)
        \/ RemoveReturn(t)
        \/ GetPriceRangeCall(t)
        \/ GetPriceRangeLock(t)
        \/ GetPriceRangeFind(t)
        \/ GetPriceRangeReturn(t)
        \/ DisplayCall(t)
        \/ DisplayLock(t)
        \/ DisplayLoop(t)
        \/ DisplayReturn(t)

Spec == Init /\ [][Next]_vars

\* ------------------------------------------------------ endless callers
\* The same threads calling without end: remove, getPriceRange and display
\* are called any number of times, insert (which makes the state grow) at
\* most MaxLiveInserts times.
InsertCallLive(t) ==
    /\ ncalls < MaxLiveInserts
    /\ InsertCall(t)

RemoveCallAgain(t) ==
    /\ \E symbol \in Symbols : Called(t, "remove", symbol, 0, 0)
    /\ UNCHANGED ncalls

GetPriceRangeCallAgain(t) ==
    /\ \E symbol \in Symbols : Called(t, "getPriceRange", symbol, 0, 0)
    /\ UNCHANGED ncalls

DisplayCallAgain(t) ==
    /\ Called(t, "display", "", 0, 0)
    /\ UNCHANGED ncalls

\* the steps of a call once made: the lock, the body, the return
Proceed(t) ==
    \/ InsertLock(t)
    \/ InsertRef(t)
    \/ InsertScan(t)
    \/ InsertPush(t)
    \/ InsertReturn(t)
    \/ RemoveLock(t)
    \/ RemoveFind(t)
    \/ RemoveErase(t)
    \/ RemoveReturn(t)
    \/ GetPriceRangeLock(t)
    \/ GetPriceRangeFind(t)
    \/ GetPriceRangeReturn(t)
    \/ DisplayLock(t)
    \/ DisplayLoop(t)
    \/ DisplayReturn(t)

NextLive ==
    \E t \in Threads :
        \/ InsertCallLive(t)
        \/ RemoveCallAgain(t)
        \/ GetPriceRangeCallAgain(t)
        \/ DisplayCallAgain(t)
        \/ Proceed(t)

\* Every thread is scheduled: a step of its call that stays possible is
\* taken. std::mutex gives no more: a waiting thread gets a mutex that stays
\* free, not one that other threads keep taking first.
SpecLive ==
    Init /\ [][NextLive]_vars /\ \A t \in Threads : WF_vars(Proceed(t))

\* ------------------------------------------------------ large quantities
\* The calls of Spec, the inserts with quantities that reach the largest int.
InsertCallWide(t) ==
    \E symbol \in Symbols, lotSize \in WideQuantities :
        \E price \in PricesOf(symbol) :
            Invoke(t, "insert", symbol, price, lotSize)

NextWide ==
    \E t \in Threads :
        \/ InsertCallWide(t)
        \/ RemoveCall(t)
        \/ GetPriceRangeCall(t)
        \/ DisplayCall(t)
        \/ Proceed(t)

SpecWide == Init /\ [][NextWide]_vars

\* ============================================================ properties
LockPcs == {"insert_lock", "remove_lock", "getPriceRange_lock",
            "display_lock"}
AllReturned == \A t \in Threads : pc[t] = "idle"
InBody(t) == pc[t] \notin LockPcs \cup {"idle"}

\* positions of the orders of `symbol` whose price is `price`
LevelsAt(m, symbol, price) ==
    {i \in 1..Len(OrdersOf(m, symbol)) : OrdersOf(m, symbol)[i].price = price}

PricesIn(orders) == {orders[i].price : i \in 1..Len(orders)}
MinOf(S) == CHOOSE x \in S : \A y \in S : x <= y
MaxOf(S) == CHOOSE x \in S : \A y \in S : y <= x

\* C1: no lost updates. Once every call has returned, for every symbol on
\* which remove was never called and every price at which insert was called
\* N >= 1 times (from any threads, in any interleaving), the symbol has
\* exactly one order of that price and its lotSize is the sum of the N
\* inserted quantities.
C1_NoLostUpdates ==
    AllReturned =>
        \A symbol \in Symbols, price \in Prices :
            (~invoked[symbol].removeCalled /\ invoked[symbol].n[price] > 0) =>
                /\ Contains(map_, symbol)
                /\ Cardinality(LevelsAt(map_, symbol, price)) = 1
                /\ \A i \in LevelsAt(map_, symbol, price) :
                       map_[symbol][i].lotSize = invoked[symbol].sum[price]

\* two inserts of quantity 1 at one (symbol, price) have returned
C1_Witness ==
    /\ AllReturned
    /\ \E symbol \in Symbols, price \in Prices :
           /\ ~invoked[symbol].removeCalled
           /\ invoked[symbol].n[price] = 2
           /\ invoked[symbol].sum[price] = 2
           /\ \E i \in LevelsAt(map_, symbol, price) :
                  map_[symbol][i].lotSize = 2

\* C2 (I1): in every reachable state no symbol's vector holds two orders of
\* the same price.
C2_PriceUnique ==
    \A symbol \in DOMAIN map_ :
        \A i, j \in 1..Len(map_[symbol]) :
            map_[symbol][i].price = map_[symbol][j].price => i = j

\* a vector of two prices, one of them the sum of two inserts
C2_Witness ==
    \E symbol \in DOMAIN map_ :
        /\ Len(map_[symbol]) = 2
        /\ \E i \in 1..2 : map_[symbol][i].lotSize > 2

\* C3 (I2): whenever no insert or remove is inside its critical section,
\* the lotSize of every order equals the sum of the quantities of the
\* inserts at its (symbol, price) that returned since the last remove of the
\* symbol returned (or since the start).
NoUpdateInFlight ==
    \A t \in Threads :
        call[t].op \in {"insert", "remove"} => pc[t] \in LockPcs

C3_SumSinceCreation ==
    NoUpdateInFlight =>
        \A symbol \in DOMAIN map_ :
            \A i \in 1..Len(map_[symbol]) :
                map_[symbol][i].lotSize =
                    since[symbol][map_[symbol][i].price]

\* an order re-created after a remove: less than was ever inserted there
C3_Witness ==
    /\ NoUpdateInFlight
    /\ \E symbol \in DOMAIN map_ :
           \E i \in 1..Len(map_[symbol]) :
               /\ map_[symbol][i].lotSize > 0
               /\ map_[symbol][i].lotSize <
                      ever[symbol][map_[symbol][i].price]

\* C4 (I3): no step of another thread changes map_ while a thread is inside
\* a critical section; no step removes or re-prices an order of a vector
\* that stays in the map; an insert that reaches its return has applied
\* exactly the whole insert to the map it locked, and a remove that reaches
\* its return has erased exactly the whole vector from the map it locked.
Moved(t) ==
    pc'[t] # pc[t] \/ idx'[t] # idx[t] \/ shown'[t] # shown[t]

NoForeignUpdate ==
    \A t \in Threads : (InBody(t) /\ ~Moved(t)) => map_' = map_

WholeBookOnly ==
    \A symbol \in DOMAIN map_ \cap DOMAIN map_' :
        /\ Len(map_'[symbol]) >= Len(map_[symbol])
        /\ \A i \in 1..Len(map_[symbol]) :
               map_'[symbol][i].price = map_[symbol][i].price

InsertLandsWhole ==
    \A t \in Threads :
        pc[t] = "insert_ret" =>
            map_ = SeqInsert(snap[t], call[t].symbol, call[t].price,
                             call[t].lotSize)

RemoveTakesWhole ==
    \A t \in Threads :
        pc[t] = "remove_ret" => map_ = Erase(snap[t], call[t].symbol)

C4_AtomicRemoval ==
    [][/\ NoForeignUpdate
       /\ WholeBookOnly
       /\ InsertLandsWhole'
       /\ RemoveTakesWhole']_vars

\* a remove has erased a vector while an insert on the symbol waits
C4_Witness ==
    \E t, u \in Threads :
        /\ pc[t] = "remove_ret"
        /\ Contains(snap[t], call[t].symbol)
        /\ ~Contains(map_, call[t].symbol)
        /\ pc[u] = "insert_lock"
        /\ call[u].symbol = call[t].symbol

\* C5: a remove of a symbol that has no vector returns an outcome that
\* differs from the one a successful removal returns, and leaves the map
\* as it was.
C5_RemoveReportsNotFound ==
    \A t \in Threads :
        (pc[t] = "remove_ret" /\ ~Contains(snap[t], call[t].symbol)) =>
            /\ ret[t] # VoidRet
            /\ map_ = snap[t]

\* C6: getPriceRange of a symbol that has no vector returns an outcome that
\* is none of the pairs it returns for a symbol that has one.
LegitRanges == {PairRet(lo, hi) : lo \in Prices, hi \in Prices}

C6_RangeReportsNotFound ==
    \A t \in Threads :
        (pc[t] = "range_ret" /\ ~Contains(snap[t], call[t].symbol)) =>
            ret[t] \notin LegitRanges

\* C7: getPriceRange of a symbol that has a (non-empty) vector returns the
\* smallest and the largest price of the orders the vector held when the
\* call acquired the mutex.
C7_RangeIsMinMax ==
    \A t \in Threads :
        (pc[t] = "range_ret" /\ OrdersOf(snap[t], call[t].symbol) # <<>>) =>
            LET prices == PricesIn(snap[t][call[t].symbol])
            IN  ret[t] = PairRet(MinOf(prices), MaxOf(prices))

\* the range of a vector whose smallest price was not inserted first and
\* whose largest price was not inserted last
C7_Witness ==
    \E t \in Threads :
        /\ pc[t] = "range_ret"
        /\ Contains(snap[t], call[t].symbol)
        /\ LET orders == snap[t][call[t].symbol]
           IN  /\ Len(orders) = 2
               /\ orders[1].price > orders[2].price
               /\ ret[t] = PairRet(orders[2].price, orders[1].price)
               /\ ret[t].first < 0

\* C8: once a remove of an inserted symbol has returned and while no insert
\* on the symbol is called, the symbol has no vector and every getPriceRange
\* and remove on it returns a NotFound outcome.
C8_RemovalTerminal ==
    \A symbol \in removed :
        /\ ~Contains(map_, symbol)
        /\ \A t \in Threads :
               (pc[t] \in {"range_ret", "remove_ret"}
                    /\ call[t].symbol = symbol) =>
                   ret[t].kind = "NotFound"

\* C9: every call returns what the sequential store returned for it, and
\* leaves the map the sequential store holds, the sequential store running
\* the calls one at a time in the order they acquired the mutex.
RetPcs == {"insert_ret", "remove_ret", "range_ret", "display_ret"}

C9_Linearizable ==
    /\ \A t \in Threads :
           pc[t] \in RetPcs => (ret[t] = expect[t] /\ map_ = seqMap)
    /\ mutex_ = NoThread => map_ = seqMap

\* an insert that added to an existing order returns while another thread's
\* call on the same symbol waits for the mutex
C9_Witness ==
    \E t, u \in Threads :
        /\ t # u
        /\ pc[t] = "insert_ret"
        /\ found[t]
        /\ pc[u] \in {"insert_lock", "remove_lock", "getPriceRange_lock"}
        /\ call[u].symbol = call[t].symbol

\* C10: what a display call has written when it returns is the content of
\* the map in the state in which it acquired the mutex, which is the state
\* of the sequential store: no call partially applied.
C10_DisplaySnapshot ==
    \A t \in Threads :
        pc[t] = "display_ret" => (shown[t] = snap[t] /\ shown[t] = seqMap)

\* a display returns its output while an insert waits for the mutex
C10_Witness ==
    \E t, u \in Threads :
        /\ pc[t] = "display_ret"
        /\ shown[t] # EmptyMap
        /\ \E symbol \in DOMAIN shown[t] : Len(shown[t][symbol]) >= 1
        /\ pc[u] = "insert_lock"

\* C11: every call that has been made returns.
C11_EveryCallReturns ==
    \A t \in Threads : (pc[t] # "idle") ~> (pc[t] = "idle")

\* C11, for what the mutex gives: a call that holds the mutex returns;
\* whenever a call waits, some call gets the mutex (no deadlock); and in the
\* behaviours in which a thread that finds the mutex free again and again
\* gets it in the end, every call returns.
C11_NoDeadlockFairReturn ==
    /\ \A t \in Threads : InBody(t) ~> (pc[t] = "idle")
    /\ (\E t \in Threads : pc[t] \in LockPcs) ~> (\E u \in Threads : InBody(u))
    /\ (\A t \in Threads : SF_vars(Proceed(t))) => C11_EveryCallReturns

\* a call waits for the mutex another thread's call holds
C11_Witness ==
    \E t, u \in Threads :
        /\ pc[t] \in LockPcs
        /\ mutex_ = u
        /\ u # t
        /\ InBody(u)

\* C12: a getPriceRange of a symbol returns what the previous getPriceRange
\* of that symbol returned, when no insert or remove of the symbol has
\* acquired the mutex between the two; whether the symbol has a vector or
\* not.
C12_RangeIdempotent ==
    \A t \in Threads :
        (pc[t] = "range_ret" /\ lastRange[call[t].symbol] # NoRet) =>
            ret[t] = lastRange[call[t].symbol]

\* a second getPriceRange of a symbol that has a vector returns
C12_Witness ==
    \E t \in Threads :
        /\ pc[t] = "range_ret"
        /\ Contains(map_, call[t].symbol)
        /\ lastRange[call[t].symbol] # NoRet

\* C13: an insert at a price the symbol has no order of appends exactly one
\* order, of that price and quantity, and leaves every order the symbol had
\* as it was; an insert at a price the symbol has an order of adds the
\* quantity to that order and leaves the number of orders, every price and
\* every other quantity as they were.
C13_DistinctPriceSeparation ==
    \A t \in Threads :
        pc[t] = "insert_ret" =>
            LET symbol == call[t].symbol
                old == OrdersOf(snap[t], symbol)
                new == OrdersOf(map_, symbol)
            IN  IF LevelsAt(snap[t], symbol, call[t].price) = {}
                THEN /\ Len(new) = Len(old) + 1
                     /\ \A i \in 1..Len(old) : new[i] = old[i]
                     /\ new[Len(new)] = Order(call[t].lotSize, call[t].price)
                ELSE /\ Len(new) = Len(old)
                     /\ \A i \in 1..Len(old) :
                            /\ new[i].price = old[i].price
                            /\ new[i].lotSize =
                                   IF old[i].price = call[t].price
                                   THEN old[i].lotSize + call[t].lotSize
                                   ELSE old[i].lotSize

\* an insert added to one of the two orders of a symbol
C13_Witness ==
    \E t \in Threads :
        /\ pc[t] = "insert_ret"
        /\ found[t]
        /\ Len(OrdersOf(snap[t], call[t].symbol)) = 2

\* C14: no step of a getPriceRange or display call changes map_, whether
\* the symbol asked for has a vector or not.
C14_QueriesReadOnly ==
    [][\A t \in Threads :
           (call[t].op \in {"getPriceRange", "display"} /\ Moved(t)) =>
               map_' = map_]_vars

\* a getPriceRange of a symbol that has no vector is about to return, the
\* map holding another symbol only
C14_Witness ==
    \E t \in Threads :
        /\ pc[t] = "range_ret"
        /\ ~Contains(map_, call[t].symbol)
        /\ map_ # EmptyMap

\* the step is the erase of a remove of the symbol
ErasesSymbol(symbol) ==
    \E t \in Threads :
        /\ pc[t] = "remove_erase"
        /\ call[t].symbol = symbol
        /\ pc'[t] # pc[t]

OneInBody ==
    /\ Cardinality({t \in Threads : InBody(t)}) <= 1
    /\ \A t \in Threads : InBody(t) => mutex_ = t

\* a step that changes map_ is a step of the thread holding the mutex
OnlyHolderWrites ==
    map_' # map_ => \E t \in Threads : mutex_ = t /\ Moved(t)

\* C16: at most one thread is inside the body of an operation, the thread
\* that is holds the mutex, and every step that changes map_ is a step of
\* the thread that holds the mutex; two inserts on different symbols are
\* never in their bodies together.
C16_MutualExclusion == []OneInBody /\ [][OnlyHolderWrites]_vars

\* an insert is in its body while an insert on the other symbol waits
C16_Witness ==
    \E t, u \in Threads :
        /\ pc[t] \in {"insert_scan", "insert_push"}
        /\ pc[u] = "insert_lock"
        /\ call[u].symbol # call[t].symbol

\* C17: every order's quantity is at least 0, the quantities inserted being
\* at least 1 and the quantity being the int that fetch_add updates.
C17_QuantityNonNegative ==
    \A symbol \in DOMAIN map_ :
        \A i \in 1..Len(map_[symbol]) : map_[symbol][i].lotSize >= 0

\* no insert is between creating a vector and filling it
NoInsertInBody ==
    \A t \in Threads : call[t].op = "insert" => ~InBody(t)

\* C18: whenever no insert is inside its body every symbol of map_ has at
\* least one order, and the vector a getPriceRange finds is never empty.
C18_NoEmptyBook ==
    /\ NoInsertInBody => \A symbol \in DOMAIN map_ : map_[symbol] # <<>>
    /\ \A t \in Threads :
           (pc[t] \in {"range_find", "range_ret"}
                /\ Contains(map_, call[t].symbol)) =>
               map_[call[t].symbol] # <<>>

\* a getPriceRange finds the vector of its symbol, which holds two orders
C18_Witness ==
    \E t \in Threads :
        /\ pc[t] = "range_find"
        /\ Contains(map_, call[t].symbol)
        /\ Len(map_[call[t].symbol]) = 2

\* C19: a step of an insert or a remove of one symbol leaves every other
\* symbol as it was: in map_ or not, and its vector unchanged.
C19_SymbolIndependence ==
    [][\A t \in Threads :
           (call[t].op \in {"insert", "remove"} /\ Moved(t)) =>
               \A other \in Symbols \ {call[t].symbol} :
                   /\ Contains(map_', other) <=> Contains(map_, other)
                   /\ OrdersOf(map_', other) = OrdersOf(map_, other)]_vars

\* a remove has erased its symbol and the other symbol is still in map_
C19_Witness ==
    \E t \in Threads :
        /\ pc[t] = "remove_ret"
        /\ ~cerr[t]
        /\ map_ # EmptyMap

====
